---- MODULE Spec2Model ----
(***************************************************************************)
(* The file-viewer views of olympia/files/views.py: poll, compare_poll,    *)
(* check_compare_form, browse, compare, redirect, serve and BrowseViewSet. *)
(* Collaborators that live outside views.py (FileViewer, the diff object,  *)
(* lib.cache.Message / Token, forms.FileCompareForm) are modelled by the   *)
(* state they keep and the results the views read from them.               *)
(***************************************************************************)
EXTENDS Integers, Sequences, FiniteSets, TLC

\* ------------------------------------------------------------------ bounds
MaxMsgs == 3      \* messages the extraction tasks post in one behaviour
MaxTokens == 2    \* tokens redirect issues in one behaviour

\* ------------------------------------------------------------ value spaces
Viewers == {"v1", "v2"}
NoKey == "<None>"                       \* Python None where a key is expected
ServeKeys == {"", "manifest.json", "icon.png", "blank", "old.js"}
KeyArgs == {NoKey, "", "manifest.json", "lib", "icon.png", "blank", "old.js", "gone.js"}
Methods == {"GET", "HEAD", "POST"}
ViewKeys == {NoKey, "manifest.json", "lib", "icon.png", "old.js"}
Types == {"file", "fragment"}
Texts == {"", "extracting"}

\* viewer.file.id
FileIdOf(v) == IF v = "v1" THEN 11 ELSE 12
FileIds == {FileIdOf(v) : v \in Viewers}
NoFile == 0                             \* Python None where a file is expected

\* An entry of the file tree; n is the number of items of the entry's dict,
\* so an entry with n = 0 is an empty dict and falsy.
Entry(full, mimetype, directory, binary, n) ==
    [full |-> full, mimetype |-> mimetype, directory |-> directory,
     binary |-> binary, n |-> n]
NoEntry == Entry("", "", FALSE, FALSE, -1)   \* Python None where an entry is expected

\* viewer.get_files(): the extracted tree of each viewer's package.
get_files(v) ==
    IF v = "v1"
    THEN [k \in {"manifest.json", "lib", "icon.png", "blank"} |->
            CASE k = "manifest.json" -> Entry("/x/11/manifest.json", "application/json", FALSE, FALSE, 4)
              [] k = "lib"           -> Entry("/x/11/lib", "", TRUE, FALSE, 4)
              [] k = "icon.png"      -> Entry("/x/11/icon.png", "image/png", FALSE, TRUE, 4)
              [] k = "blank"         -> Entry("", "", FALSE, FALSE, 0)]
    ELSE [k \in {"manifest.json", "old.js", "gone.js"} |->
            CASE k = "manifest.json" -> Entry("/x/12/manifest.json", "application/json", FALSE, FALSE, 4)
              [] k = "old.js"        -> Entry("/x/12/old.js", "text/javascript", FALSE, FALSE, 4)
              [] k = "gone.js"       -> Entry("/x/12/gone.js", "text/javascript", FALSE, FALSE, 4)]

\* dict.get(key): the entry, or None
DictGet(files, key) == IF key \in DOMAIN files THEN files[key] ELSE NoEntry

\* Python truth value of an entry (None and {} are falsy)
EntryTruthy(obj) == obj.n > 0

\* A message of the cache: id 0 is None (nothing stored); a posted message
\* carries the id the poster gave it and its text.
NoMsg == [id |-> 0, text |-> ""]
MsgTruthy(m) == m.id # 0 /\ m.text # ""

\* 'file-viewer:%s' % viewer
MessageKey(v) == <<"file-viewer", v>>
MessageKeys == {MessageKey(v) : v \in Viewers}

\* A URL: the route name, its arguments and the token query parameter.
Url(name, viewer, left, right, type, key, token) ==
    [name |-> name, viewer |-> viewer, left |-> left, right |-> right,
     type |-> type, key |-> key, token |-> token]
NoUrl == Url("", "", 0, 0, "", "", 0)

VARIABLES
    store,        \* the cache behind Message: message key -> stored message
    nextMsg,      \* id of the next message a task posts
    delivered,    \* message id -> number of poll responses that carried it
    unread,       \* message key -> a message was posted since the last read
    extracted,    \* viewer -> is_extracted()
    tokens,       \* the Tokens saved so far
    nextToken,    \* value of the next Token created
    issued,       \* the serve URLs redirect has handed out
    selected,     \* viewer -> the key selected in the viewer of the latest request
    calls,        \* the collaborator calls of the latest request, in order
    resp          \* the latest response

vars == <<store, nextMsg, delivered, unread, extracted, tokens, nextToken,
          issued, selected, calls, resp>>

NoResp == [op |-> "none"]

Init ==
    /\ store = [k \in MessageKeys |-> NoMsg]
    /\ nextMsg = 1
    /\ delivered = [i \in 1..MaxMsgs |-> 0]
    /\ unread = [k \in MessageKeys |-> FALSE]
    /\ extracted = [v \in Viewers |-> FALSE]
    /\ tokens = {}
    /\ nextToken = 1
    /\ issued = {}
    /\ selected = [v \in Viewers |-> NoKey]
    /\ calls = <<>>
    /\ resp = NoResp

\* ------------------------------------------------------- the message cache
\* Message(key).save(message), done by the extraction tasks
PostMessage(v, text) ==
    /\ nextMsg <= MaxMsgs
    /\ store' = [store EXCEPT ![MessageKey(v)] = [id |-> nextMsg, text |-> text]]
    /\ unread' = [unread EXCEPT ![MessageKey(v)] = TRUE]
    /\ nextMsg' = nextMsg + 1
    /\ UNCHANGED <<delivered, extracted, tokens, nextToken, issued, selected,
                   calls, resp>>

\* the extraction task finishes, or the extracted tree is cleaned up
SetExtracted(v, b) ==
    /\ extracted[v] # b
    /\ extracted' = [extracted EXCEPT ![v] = b]
    /\ UNCHANGED <<store, nextMsg, delivered, unread, tokens, nextToken, issued,
                   selected, calls, resp>>

\* Message(key).get(delete=True): the value read
MessageGet(st, k) == st[k]
\* Message(key).get(delete=True): the cache afterwards
MessageDelete(st, k) == [st EXCEPT ![k] = NoMsg]

\* the deliveries count after a response carried the messages of msgs
Deliver(d, msgs) ==
    [i \in DOMAIN d |-> d[i] + Cardinality({j \in 1..Len(msgs) : msgs[j].id = i})]

poll_keeps_message(viewer) ==
    /\ resp' = [op |-> "poll", viewer |-> viewer,
                status |-> extracted[viewer],
                msg |-> <<MessageGet(store, MessageKey(viewer))>>]
    /\ store' = store
    /\ unread' = [unread EXCEPT ![MessageKey(viewer)] = FALSE]
    /\ delivered' = Deliver(delivered, <<MessageGet(store, MessageKey(viewer))>>)
    /\ calls' = <<"is_extracted", "Message.get">>
    /\ UNCHANGED <<nextMsg, extracted, tokens, nextToken, issued, selected>>

poll(viewer) ==
    /\ resp' = [op |-> "poll", viewer |-> viewer,
                status |-> extracted[viewer],
                msg |-> <<MessageGet(store, MessageKey(viewer))>>]
    /\ store' = MessageDelete(store, MessageKey(viewer))
    /\ unread' = [unread EXCEPT ![MessageKey(viewer)] = FALSE]
    /\ delivered' = Deliver(delivered, <<MessageGet(store, MessageKey(viewer))>>)
    /\ calls' = <<"is_extracted", "Message.get">>
    /\ UNCHANGED <<nextMsg, extracted, tokens, nextToken, issued, selected>>

\* diff.is_extracted(): both sides are extracted
DiffIsExtracted(left, right) == extracted[left] /\ extracted[right]

compare_poll_appends_all(left, right) ==
    LET m1 == MessageGet(store, MessageKey(left))
        st1 == MessageDelete(store, MessageKey(left))
        m2 == MessageGet(st1, MessageKey(right))
        st2 == MessageDelete(st1, MessageKey(right))
        msgs == <<m1, m2>>
    IN  /\ resp' = [op |-> "compare_poll", left |-> left, right |-> right,
                    status |-> DiffIsExtracted(left, right), msg |-> msgs]
        /\ store' = st2
        /\ unread' = [k \in MessageKeys |->
                        IF k \in {MessageKey(left), MessageKey(right)}
                        THEN FALSE ELSE unread[k]]
        /\ delivered' = Deliver(delivered, msgs)
        /\ calls' = <<"Message.get", "Message.get", "is_extracted">>
        /\ UNCHANGED <<nextMsg, extracted, tokens, nextToken, issued, selected>>

compare_poll(left, right) ==
    LET m1 == MessageGet(store, MessageKey(left))
        st1 == MessageDelete(store, MessageKey(left))
        msgs1 == IF MsgTruthy(m1) THEN <<m1>> ELSE <<>>
        m2 == MessageGet(st1, MessageKey(right))
        st2 == MessageDelete(st1, MessageKey(right))
        msgs == IF MsgTruthy(m2) THEN Append(msgs1, m2) ELSE msgs1
    IN  /\ resp' = [op |-> "compare_poll", left |-> left, right |-> right,
                    status |-> DiffIsExtracted(left, right), msg |-> msgs]
        /\ store' = st2
        /\ unread' = [k \in MessageKeys |->
                        IF k \in {MessageKey(left), MessageKey(right)}
                        THEN FALSE ELSE unread[k]]
        /\ delivered' = Deliver(delivered, msgs)
        /\ calls' = <<"Message.get", "Message.get", "is_extracted">>
        /\ UNCHANGED <<nextMsg, extracted, tokens, nextToken, issued, selected>>

Post == \E v \in Viewers, t \in Texts : PostMessage(v, t)
Extract == \E v \in Viewers, b \in BOOLEAN : SetExtracted(v, b)
Poll == \E v \in Viewers : poll(v)
ComparePoll == \E l \in Viewers, r \in Viewers : compare_poll(l, r)

NextPoll == Post \/ Extract \/ Poll \/ ComparePoll
SpecPoll == Init /\ [][NextPoll]_vars

\* C4: every poll answers with the viewer's extraction status and a list of
\* exactly one element, the message stored for the viewer (None when nothing
\* is stored), and removes it from the cache; so no posted message is carried
\* by more than one response, and a poll with nothing posted since the last
\* read answers with the empty message.
C4_PollConsumes ==
    /\ [][\A v \in Viewers : poll(v) =>
            /\ resp'.op = "poll"
            /\ resp'.status = extracted[v]
            /\ Len(resp'.msg) = 1
            /\ resp'.msg[1] = store[MessageKey(v)]
            /\ store'[MessageKey(v)] = NoMsg
            /\ (~unread[MessageKey(v)] => resp'.msg = <<NoMsg>>)]_vars
    /\ [](\A i \in 1..MaxMsgs : delivered[i] <= 1)

\* a poll answered empty after message 1 had been posted and delivered once
C4_Witness ==
    /\ resp.op = "poll"
    /\ resp.msg = <<NoMsg>>
    /\ nextMsg > 1
    /\ delivered[1] = 1
    /\ store[MessageKey(resp.viewer)] = NoMsg

\* the messages a compare_poll of (left, right) finds, left first; with
\* left = right the second read finds the message already deleted
FoundMessages(left, right) ==
    <<store[MessageKey(left)],
      IF left = right THEN NoMsg ELSE store[MessageKey(right)]>>

\* C5: compare_poll answers with diff.is_extracted() and the non-empty
\* messages of left and right, left first: at most two, none empty, and both
\* messages are gone from the cache afterwards, empty or not.
C5_ComparePoll ==
    [][\A l \in Viewers, r \in Viewers : compare_poll(l, r) =>
            /\ resp'.op = "compare_poll"
            /\ resp'.status = (extracted[l] /\ extracted[r])
            /\ Len(resp'.msg) \in 0..2
            /\ \A j \in 1..Len(resp'.msg) :
                   resp'.msg[j].id # 0 /\ resp'.msg[j].text # ""
            /\ resp'.msg = SelectSeq(FoundMessages(l, r), MsgTruthy)
            /\ store'[MessageKey(l)] = NoMsg
            /\ store'[MessageKey(r)] = NoMsg]_vars

\* a compare_poll that dropped an empty left message and kept the right one
C5_Witness ==
    /\ resp.op = "compare_poll"
    /\ resp.left # resp.right
    /\ Len(resp.msg) = 1
    /\ delivered[resp.msg[1].id] = 1
    /\ \E i \in 1..MaxMsgs : i < nextMsg /\ delivered[i] = 0
                             /\ \A k \in MessageKeys : store[k].id # i
    /\ store[MessageKey(resp.left)] = NoMsg
    /\ store[MessageKey(resp.right)] = NoMsg

\* ------------------------------------------------------ tokens and serving
\* Token(data=[viewer.file.id, key]) with the token value it was given
Token(value, file_id, key) ==
    [token |-> value, data |-> [file |-> file_id, key |-> key]]

\* reverse('files.serve', args=[viewer, key])
ReverseServe(viewer, key) == Url("files.serve", viewer, 0, 0, "", key, 0)

\* urlparams(url, token=...)
urlparams(url, token) == [url EXCEPT !.token = token]

redirect_unsaved(viewer, key) ==
    LET new == Token(nextToken, FileIdOf(viewer), key)
        url == urlparams(ReverseServe(viewer, key), new.token)
    IN  /\ nextToken <= MaxTokens
        /\ nextToken' = nextToken + 1
        /\ tokens' = tokens
        /\ issued' = issued \cup {url}
        /\ calls' = <<"Token", "reverse", "urlparams", "HttpResponseRedirect">>
        /\ resp' = [op |-> "redirect", viewer |-> viewer, key |-> key,
                    outcome |-> "302", url |-> url]
        /\ UNCHANGED <<store, nextMsg, delivered, unread, extracted, selected>>

redirect(viewer, key) ==
    LET new == Token(nextToken, FileIdOf(viewer), key)
        url == urlparams(ReverseServe(viewer, key), new.token)
    IN  /\ nextToken <= MaxTokens
        /\ nextToken' = nextToken + 1
        /\ tokens' = tokens \cup {new}
        /\ issued' = issued \cup {url}
        /\ calls' = <<"Token", "Token.save", "reverse", "urlparams",
                      "HttpResponseRedirect">>
        /\ resp' = [op |-> "redirect", viewer |-> viewer, key |-> key,
                    outcome |-> "302", url |-> url]
        /\ UNCHANGED <<store, nextMsg, delivered, unread, extracted, selected>>

\* files.keys()[:10] inside the log.error call: keys() is a list under
\* Python 2 and can be sliced; under Python 3 it is a view and slicing it
\* raises TypeError
KeysSliceRaises(keysIsList) == ~keysIsList

serve(viewer, key, keysIsList) ==
    LET files == get_files(viewer)
        obj == DictGet(files, key)
    IN  /\ resp' =
              IF ~EntryTruthy(obj)
              THEN IF KeysSliceRaises(keysIsList)
                   THEN [op |-> "serve", viewer |-> viewer, key |-> key,
                         keysIsList |-> keysIsList,
                         outcome |-> "TypeError", logged |-> FALSE,
                         path |-> "", content_type |-> ""]
                   ELSE [op |-> "serve", viewer |-> viewer, key |-> key,
                         keysIsList |-> keysIsList,
                         outcome |-> "404", logged |-> TRUE,
                         path |-> "", content_type |-> ""]
              ELSE [op |-> "serve", viewer |-> viewer, key |-> key,
                         keysIsList |-> keysIsList,
                    outcome |-> "sendfile", logged |-> FALSE,
                    path |-> obj.full, content_type |-> obj.mimetype]
        /\ calls' = IF ~EntryTruthy(obj)
                    THEN IF KeysSliceRaises(keysIsList)
                         THEN <<"get_files">>
                         ELSE <<"get_files", "log.error">>
                    ELSE <<"get_files", "HttpResponseSendFile">>
        /\ UNCHANGED <<store, nextMsg, delivered, unread, extracted, tokens,
                       nextToken, issued, selected>>

Redirect == \E v \in Viewers, k \in ServeKeys : redirect(v, k)
Serve == \E v \in Viewers, k \in ServeKeys, l \in BOOLEAN : serve(v, k, l)

NextToken == Redirect \/ Serve
SpecToken == Init /\ [][NextToken]_vars

\* the position of call c in the latest request's calls, 0 when absent
CallIndex(c) ==
    IF \E i \in 1..Len(calls) : calls[i] = c
    THEN CHOOSE i \in 1..Len(calls) : calls[i] = c
    ELSE 0

\* C2: every serve URL redirect has handed out is the 'files.serve' URL of
\* the requested viewer and key and carries the token value of a Token that
\* is saved with data exactly [viewer.file.id, key]; the Token is saved
\* before the redirect response is produced.
C2_RedirectIssuesSavedToken ==
    /\ \A u \in issued :
          /\ u.name = "files.serve"
          /\ \E t \in tokens :
                /\ t.token = u.token
                /\ t.data = [file |-> FileIdOf(u.viewer), key |-> u.key]
    /\ resp.op = "redirect" =>
          /\ resp.outcome = "302"
          /\ resp.url \in issued
          /\ resp.url.name = "files.serve"
          /\ resp.url.viewer = resp.viewer
          /\ resp.url.key = resp.key
          /\ CallIndex("Token.save") > 0
          /\ CallIndex("Token.save") < CallIndex("HttpResponseRedirect")

\* two redirects were answered, for different files
C2_Witness ==
    /\ resp.op = "redirect"
    /\ Cardinality(issued) = 2
    /\ \E u1 \in issued, u2 \in issued : u1.viewer # u2.viewer

\* C3: serve sends the entry's 'full' path with its 'mimetype' when the key
\* has a truthy entry in the tree, and otherwise logs and answers 404; a
\* missing key has no other outcome.
C3_ServeMissingIs404 ==
    resp.op = "serve" =>
        LET obj == DictGet(get_files(resp.viewer), resp.key)
        IN  IF obj.n > 0
            THEN /\ resp.outcome = "sendfile"
                 /\ resp.path = obj.full
                 /\ resp.content_type = obj.mimetype
            ELSE /\ resp.outcome = "404"
                 /\ resp.logged

\* ------------------------------------------------------------ BrowseViewSet
\* the class attribute as first assigned: [AnyOf(AllowReviewer,
\* AllowReviewerUnlisted, AllowAddonAuthor)]
permission_classes_declared == <<"AnyOf">>
\* the class attribute after the second assignment, which is the one in force
permission_classes == << >>

\* AnyOf(AllowReviewer, AllowReviewerUnlisted, AllowAddonAuthor) on a request
Grants(p, req) ==
    p = "AnyOf" /\ (req.reviewer \/ req.unlisted_reviewer \/ req.author)

\* the framework refuses the request unless every permission class grants it
CheckPermissions(req) ==
    \A i \in 1..Len(permission_classes) : Grants(permission_classes[i], req)

\* File.objects.all()
get_queryset == FileIds
MissingFileId == 99

Requesters ==
    [reviewer : BOOLEAN, unlisted_reviewer : BOOLEAN, author : BOOLEAN]

retrieve(req, pk, requested_file) ==
    /\ resp' = [op |-> "retrieve", req |-> req, pk |-> pk,
                requested_file |-> requested_file,
                outcome |-> IF ~CheckPermissions(req) THEN "403"
                            ELSE IF pk \notin get_queryset THEN "404"
                            ELSE "200",
                data |-> IF CheckPermissions(req) /\ pk \in get_queryset
                         THEN pk ELSE NoFile]
    /\ calls' = <<"get_queryset", "get_serializer_context">>
    /\ UNCHANGED <<store, nextMsg, delivered, unread, extracted, tokens,
                   nextToken, issued, selected>>

Retrieve ==
    \E req \in Requesters, pk \in FileIds \cup {MissingFileId}, f \in KeyArgs :
        retrieve(req, pk, f)

NextApi == Retrieve
SpecApi == Init /\ [][NextApi]_vars

\* C1: a retrieve request that none of AllowReviewer, AllowReviewerUnlisted
\* and AllowAddonAuthor grants is not answered with the file's data.
C1_BrowseViewSetDenies ==
    (resp.op = "retrieve"
        /\ ~(resp.req.reviewer \/ resp.req.unlisted_reviewer \/ resp.req.author))
    => (resp.outcome # "200" /\ resp.data = NoFile)

\* --------------------------------------------------------- browse / compare
\* FileCompareForm(request.POST or None, ...): unbound when request.POST is
\* empty; ok is the outcome of the form's field validation, left and right
\* are its cleaned_data.
UnboundForm == [bound |-> FALSE, ok |-> FALSE, left |-> NoFile, right |-> NoFile]
Forms(method) ==
    IF method = "POST"
    THEN {UnboundForm}
         \cup {[bound |-> TRUE, ok |-> FALSE, left |-> NoFile, right |-> NoFile]}
         \cup [bound : {TRUE}, ok : {TRUE}, left : FileIds,
               right : FileIds \cup {NoFile}]
    ELSE {UnboundForm}

\* form.is_valid(): an unbound form is never valid
is_valid(form) == form.bound /\ form.ok

\* request.path of a browse / compare request
BrowsePath(viewer, key, type) ==
    Url("files.list", "", FileIdOf(viewer), 0, type, key, 0)
ComparePath(left, right, key, type) ==
    Url("files.compare", "", FileIdOf(left), FileIdOf(right), type, key, 0)

NoResponse == [kind |-> "none", url |-> NoUrl]
\* shortcuts.redirect(url)
ShortcutsRedirect(url) == [kind |-> "redirect", url |-> url]
\* truth value of what check_compare_form returned (None is falsy)
ResponseTruthy(r) == r.kind # "none"

check_compare_form_invalid_passes(request, form) ==
    IF request.method = "POST"
    THEN IF is_valid(form)
         THEN IF form.right # NoFile
              THEN ShortcutsRedirect(
                       Url("files.compare", "", form.left, form.right, "", "", 0))
              ELSE ShortcutsRedirect(
                       Url("files.list", "", form.left, 0, "", "", 0))
         ELSE NoResponse
    ELSE NoResponse

check_compare_form(request, form) ==
    IF request.method = "POST"
    THEN IF is_valid(form)
         THEN IF form.right # NoFile
              THEN ShortcutsRedirect(
                       Url("files.compare", "", form.left, form.right, "", "", 0))
              ELSE ShortcutsRedirect(
                       Url("files.list", "", form.left, 0, "", "", 0))
         ELSE ShortcutsRedirect(request.path)
    ELSE NoResponse

\* the viewers a request is handed are built for it: nothing is selected
FreshSelected == [v \in Viewers |-> NoKey]

\* viewer.select(key): the viewer remembers the key
ViewerSelect(sel, viewer, key) == [sel EXCEPT ![viewer] = key]
\* the entry the viewer has selected, None when the key is not in its tree
SelectedEntry(sel, viewer) == DictGet(get_files(viewer), sel[viewer])
\* viewer.is_directory() / viewer.is_binary() on the selected entry
is_directory(sel, viewer) ==
    EntryTruthy(SelectedEntry(sel, viewer)) /\ SelectedEntry(sel, viewer).directory
is_binary(sel, viewer) ==
    EntryTruthy(SelectedEntry(sel, viewer)) /\ SelectedEntry(sel, viewer).binary
\* viewer.read_file(): the content of the selected file
read_file(sel, viewer) == [file |-> FileIdOf(viewer), key |-> sel[viewer]]
NoContent == [file |-> NoFile, key |-> NoKey]

\* 'files/content.html' if type == 'fragment' else 'files/viewer.html'
Template(type) ==
    IF type = "fragment" THEN "files/content.html" ELSE "files/viewer.html"

BrowseResp_reads_binary(request, viewer, key, type, form, response, k, outcome, sel) ==
    [op |-> "browse", method |-> request.method, path |-> request.path,
     viewer |-> viewer, key |-> key, type |-> type, form |-> form,
     form_response |-> response, k |-> k, outcome |-> outcome,
     url |-> IF outcome = "302" THEN response.url ELSE NoUrl,
     template |-> IF outcome = "200" THEN Template(type) ELSE "",
     ctx_status |-> outcome = "200",
     ctx_key |-> IF outcome = "200" THEN k ELSE NoKey,
     ctx_files |-> IF outcome = "200" THEN DOMAIN get_files(viewer) ELSE {},
     has_content |-> /\ outcome = "200"
                     /\ ~is_directory(sel, viewer),
     content |-> IF /\ outcome = "200"
                    /\ ~is_directory(sel, viewer)
                 THEN read_file(sel, viewer) ELSE NoContent]

BrowseResp(request, viewer, key, type, form, response, k, outcome, sel) ==
    [op |-> "browse", method |-> request.method, path |-> request.path,
     viewer |-> viewer, key |-> key, type |-> type, form |-> form,
     form_response |-> response, k |-> k, outcome |-> outcome,
     url |-> IF outcome = "302" THEN response.url ELSE NoUrl,
     template |-> IF outcome = "200" THEN Template(type) ELSE "",
     ctx_status |-> outcome = "200",
     ctx_key |-> IF outcome = "200" THEN k ELSE NoKey,
     ctx_files |-> IF outcome = "200" THEN DOMAIN get_files(viewer) ELSE {},
     has_content |-> /\ outcome = "200"
                     /\ ~is_directory(sel, viewer)
                     /\ ~is_binary(sel, viewer),
     content |-> IF /\ outcome = "200"
                    /\ ~is_directory(sel, viewer)
                    /\ ~is_binary(sel, viewer)
                 THEN read_file(sel, viewer) ELSE NoContent]

FrameViews == <<store, nextMsg, delivered, unread, extracted, tokens,
                nextToken, issued>>

\* k is what viewer.get_selected_file(key) returns
browse_selects_first(method, viewer, key, type, form, k) ==
    LET request == [method |-> method, path |-> BrowsePath(viewer, key, type)]
        response == check_compare_form(request, form)
        sel == ViewerSelect(FreshSelected, viewer, key)
        files == get_files(viewer)
    IN  /\ selected' = sel
        /\ IF ResponseTruthy(response)
           THEN /\ resp' = BrowseResp(request, viewer, key, type, form,
                                      response, NoKey, "302", FreshSelected)
                /\ calls' = <<"select", "FileCompareForm", "check_compare_form">>
           ELSE IF k \notin DOMAIN files
           THEN /\ resp' = BrowseResp(request, viewer, key, type, form,
                                      response, k, "404", sel)
                /\ calls' = <<"FileCompareForm", "check_compare_form",
                              "setup_viewer", "select", "get_selected_file",
                              "get_files">>
           ELSE /\ resp' = BrowseResp(request, viewer, key, type, form,
                                      response, k, "200", sel)
                /\ calls' = <<"FileCompareForm", "check_compare_form",
                              "setup_viewer", "select", "get_selected_file",
                              "get_files", "is_directory", "is_binary">>
                            \o (IF resp'.has_content THEN <<"read_file">> ELSE <<>>)
                            \o <<"render">>
        /\ UNCHANGED FrameViews

browse(method, viewer, key, type, form, k) ==
    LET request == [method |-> method, path |-> BrowsePath(viewer, key, type)]
        response == check_compare_form(request, form)
        sel == ViewerSelect(FreshSelected, viewer, key)
        files == get_files(viewer)
    IN  /\ IF ResponseTruthy(response)
           THEN /\ resp' = BrowseResp(request, viewer, key, type, form,
                                      response, NoKey, "302", FreshSelected)
                /\ calls' = <<"FileCompareForm", "check_compare_form">>
                /\ selected' = FreshSelected
           ELSE IF k \notin DOMAIN files
           THEN /\ resp' = BrowseResp(request, viewer, key, type, form,
                                      response, k, "404", sel)
                /\ calls' = <<"FileCompareForm", "check_compare_form",
                              "setup_viewer", "select", "get_selected_file",
                              "get_files">>
                /\ selected' = sel
           ELSE /\ resp' = BrowseResp(request, viewer, key, type, form,
                                      response, k, "200", sel)
                /\ calls' = <<"FileCompareForm", "check_compare_form",
                              "setup_viewer", "select", "get_selected_file",
                              "get_files", "is_directory", "is_binary">>
                            \o (IF resp'.has_content THEN <<"read_file">> ELSE <<>>)
                            \o <<"render">>
                /\ selected' = sel
        /\ UNCHANGED FrameViews

Browse ==
    \E method \in Methods, viewer \in Viewers, key \in ViewKeys, type \in Types,
       k \in ViewKeys :
        \E form \in Forms(method) :
            /\ (method = "POST" => k = NoKey)
            /\ browse(method, viewer, key, type, form, k)

\* diff.get_files(): the tree of the left viewer
DiffGetFiles(left, right) == DOMAIN get_files(left)
\* diff.get_deleted_files(): what the right viewer has and the left has not
DiffGetDeletedFiles(left, right) == DOMAIN get_files(right) \ DOMAIN get_files(left)
\* diff.select(key): both sides select the key
DiffSelect(sel, left, right, key) ==
    [v \in Viewers |-> IF v \in {left, right} THEN key ELSE sel[v]]
\* diff.is_diffable(): a side has the selected file, and neither side's is a
\* directory or binary
is_diffable(sel, left, right) ==
    /\ \/ EntryTruthy(SelectedEntry(sel, left))
       \/ EntryTruthy(SelectedEntry(sel, right))
    /\ ~is_directory(sel, left) /\ ~is_binary(sel, left)
    /\ ~is_directory(sel, right) /\ ~is_binary(sel, right)

CompareResp(request, left, right, key, type, form, response, k, outcome, sel) ==
    [op |-> "compare", method |-> request.method, path |-> request.path,
     left |-> left, right |-> right, key |-> key, type |-> type, form |-> form,
     form_response |-> response, k |-> k, outcome |-> outcome,
     url |-> IF outcome = "302" THEN response.url ELSE NoUrl,
     template |-> IF outcome = "200" THEN Template(type) ELSE "",
     ctx_status |-> outcome = "200",
     ctx_key |-> IF outcome = "200" THEN k ELSE NoKey,
     ctx_files |-> IF outcome = "200" THEN DiffGetFiles(left, right) ELSE {},
     ctx_files_deleted |->
         IF outcome = "200" THEN DiffGetDeletedFiles(left, right) ELSE {},
     has_left_right |-> outcome = "200" /\ is_diffable(sel, left, right),
     ctx_left |-> IF outcome = "200" /\ is_diffable(sel, left, right)
                  THEN read_file(sel, left) ELSE NoContent,
     ctx_right |-> IF outcome = "200" /\ is_diffable(sel, left, right)
                   THEN read_file(sel, right) ELSE NoContent]

\* k is what diff.left.get_selected_file(key) returns
compare_selects_first(method, left, right, key, type, form, k) ==
    LET request == [method |-> method, path |-> ComparePath(left, right, key, type)]
        response == check_compare_form(request, form)
        sel == DiffSelect(FreshSelected, left, right, k)
    IN  /\ IF ResponseTruthy(response)
           THEN /\ resp' = CompareResp(request, left, right, key, type, form,
                                       response, NoKey, "302", FreshSelected)
                /\ calls' = <<"FileCompareForm", "check_compare_form">>
                /\ selected' = FreshSelected
           ELSE IF /\ k \notin DiffGetFiles(left, right)
                   /\ k \notin DiffGetDeletedFiles(left, right)
           THEN /\ resp' = CompareResp(request, left, right, key, type, form,
                                       response, k, "404", sel)
                /\ calls' = <<"FileCompareForm", "check_compare_form",
                              "setup_viewer", "get_files", "get_deleted_files",
                              "get_selected_file", "select">>
                /\ selected' = sel
           ELSE /\ resp' = CompareResp(request, left, right, key, type, form,
                                       response, k, "200", sel)
                /\ calls' = <<"FileCompareForm", "check_compare_form",
                              "setup_viewer", "get_files", "get_deleted_files",
                              "get_selected_file", "select", "is_diffable">>
                            \o (IF resp'.has_left_right THEN <<"read_file">> ELSE <<>>)
                            \o <<"render">>
                /\ selected' = sel
        /\ UNCHANGED FrameViews

compare(method, left, right, key, type, form, k) ==
    LET request == [method |-> method, path |-> ComparePath(left, right, key, type)]
        response == check_compare_form(request, form)
        sel == DiffSelect(FreshSelected, left, right, k)
    IN  /\ IF ResponseTruthy(response)
           THEN /\ resp' = CompareResp(request, left, right, key, type, form,
                                       response, NoKey, "302", FreshSelected)
                /\ calls' = <<"FileCompareForm", "check_compare_form">>
                /\ selected' = FreshSelected
           ELSE IF /\ k \notin DiffGetFiles(left, right)
                   /\ k \notin DiffGetDeletedFiles(left, right)
           THEN /\ resp' = CompareResp(request, left, right, key, type, form,
                                       response, k, "404", FreshSelected)
                /\ calls' = <<"FileCompareForm", "check_compare_form",
                              "setup_viewer", "get_files", "get_deleted_files",
                              "get_selected_file">>
                /\ selected' = FreshSelected
           ELSE /\ resp' = CompareResp(request, left, right, key, type, form,
                                       response, k, "200", sel)
                /\ calls' = <<"FileCompareForm", "check_compare_form",
                              "setup_viewer", "get_files", "get_deleted_files",
                              "get_selected_file", "select", "is_diffable">>
                            \o (IF resp'.has_left_right THEN <<"read_file">> ELSE <<>>)
                            \o <<"render">>
                /\ selected' = sel
        /\ UNCHANGED FrameViews

Compare ==
    \E method \in Methods, left \in Viewers, right \in Viewers,
       key \in ViewKeys, type \in Types, k \in ViewKeys :
        \E form \in Forms(method) :
            /\ (method = "POST" => k = NoKey)
            /\ compare(method, left, right, key, type, form, k)

NextViews == Browse \/ Compare
SpecViews == Init /\ [][NextViews]_vars

IsView == resp.op \in {"browse", "compare"}

\* C6: check_compare_form returns nothing for a request that is not a POST;
\* for a POST it returns a redirect to files.compare of (left, right) when
\* the form is valid and right is set, to files.list of left when the form
\* is valid and right is unset, and to the request's own path when the form
\* is invalid.
C6_CheckCompareForm ==
    IsView =>
        IF resp.method # "POST"
        THEN resp.form_response.kind = "none"
        ELSE /\ resp.form_response.kind = "redirect"
             /\ resp.form_response.url =
                  IF resp.form.bound /\ resp.form.ok
                  THEN IF resp.form.right # 0
                       THEN [name |-> "files.compare", viewer |-> "",
                             left |-> resp.form.left, right |-> resp.form.right,
                             type |-> "", key |-> "", token |-> 0]
                       ELSE [name |-> "files.list", viewer |-> "",
                             left |-> resp.form.left, right |-> 0,
                             type |-> "", key |-> "", token |-> 0]
                  ELSE resp.path

\* a POST with a valid form and no right file was sent to files.list of left
C6_Witness ==
    /\ IsView
    /\ resp.method = "POST"
    /\ resp.form.bound /\ resp.form.ok /\ resp.form.right = 0
    /\ resp.form_response.url.name = "files.list"
    /\ resp.form_response.url.left = resp.form.left

ViewerCalls == {"select", "get_selected_file", "get_files", "get_deleted_files",
                "read_file", "is_directory", "is_binary", "is_diffable",
                "setup_viewer", "render"}

\* C7: a POST to browse or compare is answered by the redirect of
\* check_compare_form, whether the form is valid or not, and the view calls
\* neither setup_viewer nor any of the viewer's or diff's select,
\* get_selected_file, get_files, get_deleted_files, read_file, renders no
\* template and leaves the viewer as it was handed in.
C7_PostLeavesViewer ==
    (IsView /\ resp.method = "POST") =>
        /\ resp.outcome = "302"
        /\ resp.form_response.kind = "redirect"
        /\ resp.url = resp.form_response.url
        /\ \A i \in 1..Len(calls) : calls[i] \notin ViewerCalls
        /\ resp.template = ""
        /\ selected = [v \in Viewers |-> NoKey]

\* a POST with an invalid form was redirected to its own path
C7_Witness ==
    /\ IsView
    /\ resp.method = "POST"
    /\ resp.form.bound /\ ~resp.form.ok
    /\ resp.key # NoKey
    /\ resp.outcome = "302"
    /\ resp.url = resp.path

\* C8: a browse that is not a POST answers 404 and renders nothing when
\* k = viewer.get_selected_file(key) is not in viewer.get_files(), the
\* viewer having selected the requested key all the same; otherwise the
\* context has status True, key k and the file tree, and has content exactly
\* when the selected entry is neither a directory nor binary, and the
\* template is files/content.html exactly for type fragment.
C8_BrowseRenders ==
    (resp.op = "browse" /\ resp.method # "POST") =>
        LET tree == get_files(resp.viewer)
            e == IF resp.key \in DOMAIN tree THEN tree[resp.key] ELSE NoEntry
        IN  /\ selected[resp.viewer] = resp.key
            /\ IF resp.k \notin DOMAIN tree
               THEN /\ resp.outcome = "404"
                    /\ CallIndex("render") = 0
                    /\ resp.template = ""
                    /\ ~resp.has_content
               ELSE /\ resp.outcome = "200"
                    /\ CallIndex("render") > 0
                    /\ resp.ctx_status
                    /\ resp.ctx_key = resp.k
                    /\ resp.ctx_files = DOMAIN tree
                    /\ resp.has_content <=>
                          ~(e.n > 0 /\ e.directory) /\ ~(e.n > 0 /\ e.binary)
                    /\ resp.has_content <=> CallIndex("read_file") > 0
                    /\ resp.has_content =>
                          resp.content = [file |-> FileIdOf(resp.viewer),
                                          key |-> resp.key]
                    /\ (resp.template = "files/content.html")
                          <=> resp.type = "fragment"
                    /\ resp.type # "fragment" => resp.template = "files/viewer.html"

\* a fragment was rendered without content for a binary file
C8_Witness ==
    /\ resp.op = "browse"
    /\ resp.method # "POST"
    /\ resp.outcome = "200"
    /\ resp.key = "icon.png"
    /\ ~resp.has_content
    /\ resp.template = "files/content.html"

\* C9: a compare that is not a POST answers 404 without calling diff.select
\* or diff.read_file when k = diff.left.get_selected_file(key) is in neither
\* diff.get_files() nor diff.get_deleted_files(); otherwise diff.select(k)
\* comes before any read, the context has status True and key k, and left
\* and right are present exactly when diff.is_diffable() holds after the
\* selection.
C9_CompareValidatesFirst ==
    (resp.op = "compare" /\ resp.method # "POST") =>
        LET lt == get_files(resp.left)
            rt == get_files(resp.right)
            el == IF resp.k \in DOMAIN lt THEN lt[resp.k] ELSE NoEntry
            er == IF resp.k \in DOMAIN rt THEN rt[resp.k] ELSE NoEntry
            diffable == /\ (el.n > 0 \/ er.n > 0)
                        /\ ~(el.n > 0 /\ (el.directory \/ el.binary))
                        /\ ~(er.n > 0 /\ (er.directory \/ er.binary))
        IN  IF resp.k \notin DOMAIN lt /\ resp.k \notin (DOMAIN rt \ DOMAIN lt)
            THEN /\ resp.outcome = "404"
                 /\ CallIndex("select") = 0
                 /\ CallIndex("read_file") = 0
                 /\ CallIndex("render") = 0
                 /\ selected = [v \in Viewers |-> NoKey]
            ELSE /\ resp.outcome = "200"
                 /\ CallIndex("select") > CallIndex("get_selected_file")
                 /\ CallIndex("is_diffable") > CallIndex("select")
                 /\ CallIndex("read_file") > 0
                        => CallIndex("read_file") > CallIndex("select")
                 /\ selected[resp.left] = resp.k
                 /\ selected[resp.right] = resp.k
                 /\ resp.ctx_status
                 /\ resp.ctx_key = resp.k
                 /\ resp.has_left_right <=> diffable
                 /\ resp.has_left_right <=> CallIndex("read_file") > 0
                 /\ resp.has_left_right =>
                        /\ resp.ctx_left = [file |-> FileIdOf(resp.left), key |-> resp.k]
                        /\ resp.ctx_right = [file |-> FileIdOf(resp.right), key |-> resp.k]

\* a file deleted on the left was selected and read for the diff
C9_Witness ==
    /\ resp.op = "compare"
    /\ resp.method # "POST"
    /\ resp.outcome = "200"
    /\ resp.k \notin DOMAIN get_files(resp.left)
    /\ resp.has_left_right
    /\ selected[resp.left] = resp.k
====
